---- MODULE Spec2Model ----
(***************************************************************************)
(* A model of tomatillo's countdown engine (crates/lib/src/countdown):     *)
(*   - channel.rs : the handshake channel (two tokio watch channels, one   *)
(*                  for the value and one for the acknowledgment, plus a   *)
(*                  closed flag), its receiver (recv = read ; ack) and its *)
(*                  sender (send = write, close = wait_ack ; set closed);  *)
(*   - timer.rs   : AsyncCountdown (try_new, validate_duration, start) and *)
(*                  the spawned countdown loop.                            *)
(*                                                                         *)
(* Time.  tokio's sleep and timeout only promise a lower bound on the wall *)
(* clock, and the runtime may delay any task, so each waiting operation    *)
(* carries its own elapsed time (rElapsed, cElapsed) and the two tasks     *)
(* interleave freely.  Inside one wait the order of events is tokio's:     *)
(* Timeout::poll polls the wrapped future first and the deadline second,   *)
(* so a poll that falls exactly on the deadline still happens.             *)
(*                                                                         *)
(* A tokio watch channel is a slot and a version; a receiver remembers the *)
(* version it has seen.  `changed` is "the value receiver has not seen the *)
(* slot's version" and `ackChanged` the same for the acknowledgment        *)
(* receiver.  send_modify and send_replace always bump the version.        *)
(***************************************************************************)
EXTENDS Integers, Sequences, FiniteSets, TLC

\* ---------------------------------------------------------------- bounds
MaxSends  == 2    \* sends of the free producer
MaxRecvs  == 3    \* recv calls of the consumer
MaxCloses == 2    \* close calls of the free producer

\* ------------------------------------------------------ program constants
DEFAULT_TIMEOUT_MS  == 1000
DEFAULT_PERIOD_MS   == 100
DEFAULT_ACK_POLL_MS == 10

\* The options the channel of SpecChannel is built with, <<timeout_ms,
\* retry_period_ms>>: with_timeout(100), where the sleep after the first
\* poll ends exactly on the deadline, and with_timeout(25) with
\* with_retry_period(10), where the deadline falls between two polls.
\* The channel of a countdown run is built by Channel::new, with the defaults.
Options == {<<100, DEFAULT_PERIOD_MS>>, <<25, 10>>}

VARIABLES
    \* Channel
    value,            \* the slot of the value watch channel
    vseq,             \* (history) which write filled the slot: 1 = creation
    changed,          \* rx has not seen the slot's version
    ack,              \* the slot of the acknowledgment watch channel
    ackChanged,       \* ack_rx has not seen the acknowledgment's version
    closed,           \* Channel.closed
    timeout_ms,       \* Channel.timeout_ms
    retry_period_ms,  \* Channel.retry_period_ms
    \* ChannelReceiver::recv in progress
    rpc,              \* "idle" | "poll" | "sleep" | "ack"
    rElapsed,         \* time the current read has waited in await_with_timeout (0 when not waiting)
    response,         \* what read returned, not yet acknowledged
    rStart,           \* (history) the channel as the current recv found it
    received,         \* (history) the results of the recv calls, in order
    \* ChannelSender::close in progress
    ppc,              \* "idle" | "wait_ack" | "ack_sleep" | "ack_clear" | "set_closed"
    cElapsed,         \* time the current wait_ack has waited (0 when not waiting)
    cStart,           \* (history) the channel as the current close found it
    closes,           \* (history) the results of the close calls, in order
    sent,             \* (history) every value written, the initial one first
    lost,             \* (history) the writes overwritten before any read saw them
    ackedSeq,         \* (history) the write whose value the consumer last acknowledged
    acks,             \* (history) how many times Channel::ack has run
    \* the producer
    task,             \* "free": a caller of send and close in any order; or the
                      \* countdown task: "none" | "spawned" | "tick" | "send" |
                      \* "close" | "closing" | "done" | "panicked"
    \* AsyncCountdown and one countdown task
    interval,         \* the period of AsyncCountdown.interval, 0 before try_new
    tryNewResult,     \* what try_new returned
    startResult,      \* what start returned
    duration,         \* countdown's duration argument
    period_ms,        \* countdown's period_ms
    intervals,        \* countdown's intervals
    i,                \* countdown's loop index
    overflowChecks,   \* the build: TRUE when arithmetic overflow panics (debug),
                      \* FALSE when it wraps (release)
    args,             \* (history) the arguments given to try_new and start
    \* two runs started on one AsyncCountdown
    ticks,            \* how many ticks the shared Interval has completed
    runs,             \* each run's countdown task: its position, arguments,
                      \* loop index, the ticks it got and the values it sent
    \* ChannelWatcher
    watch,            \* the watch channel behind rx: its value, whether rx
                      \* has yet to see it, whether the Sender is dropped,
                      \* and (history) the values sent
    wTimeout,         \* ChannelWatcher.timeout_ms
    wpc,              \* where next is: "idle" | "changed" | "borrow" | "panicked"
    nexts,            \* (history) what the calls of next returned
    \* the broadcast Countdown of countdown.rs and timer.rs
    countdown,        \* the Countdown: duration, interval (its period),
                      \* send_retry_limit, and whether start unwraps the
                      \* send (timer.rs) or counts retries (countdown.rs)
    newResult,        \* what try_new returned
    bpc,              \* where start is: "none" | "ready" | "tick" | "send"
                      \* | "done" | "failed" | "panicked"
    loop,             \* start's locals: intervals, i, retries_left
    startErr,         \* the value in the Err(CountdownError) start returned
    emitted,          \* (history) each tick's time_left and whether its
                      \* send succeeded
    bcast,            \* the broadcast channel: how many values went into
                      \* it (tail), the one it retains, whether another
                      \* Receiver is alive; the consumer's Receiver:
                      \* "none" | "live" | "dropped", its next position,
                      \* the ticks emitted when it subscribed
    brecv,            \* (history) what the consumer's recv calls returned
    eqs               \* (history) comparisons of try_new's error with an
                      \* expected one: both errors and what == said

chanVars == <<value, vseq, changed, ack, ackChanged, closed, timeout_ms, retry_period_ms>>
recvVars == <<rpc, rElapsed, response, rStart, received>>
sendVars == <<ppc, cElapsed, cStart, closes, sent, lost>>
histVars == <<ackedSeq, acks>>
timerVars == <<interval, tryNewResult, startResult, duration, period_ms, intervals, i,
               overflowChecks, args>>
sharedVars == <<ticks, runs>>
watcherVars == <<watch, wTimeout, wpc, nexts>>
bcVars == <<countdown, newResult, bpc, loop, startErr, emitted, bcast, brecv, eqs>>
otherVars == <<sharedVars, watcherVars, bcVars>>
vars == <<chanVars, recvVars, sendVars, histVars, task, timerVars, otherVars>>

\* The values the free producer creates the channel with and sends.
Values == {0, 1}

NoResponse == [kind |-> "None", val |-> 0, seq |-> 0, latest |-> 0]

\* (history) One finished recv: what it returned (kind, val; t is the
\* duration a Timeout carries and elapsed the time that recv waited), the
\* write it read (seq) and the latest write at that moment (latest).
RecvResult(resp, t, elapsed) ==
    [kind |-> resp.kind, val |-> resp.val, seq |-> resp.seq, latest |-> resp.latest,
     t |-> t, elapsed |-> elapsed]

NoStart == [changed |-> FALSE, sends |-> 0, acks |-> 0]

\* --------------------------------------------------- f64, as timer.rs uses it
\* calc_intervals divides two Duration::as_secs_f64 values and takes the
\* ceiling.  The operators below compute IEEE-754 binary64 results exactly
\* (round to nearest, ties to even) on bit sequences, most significant bit
\* first.  A positive double is [m |-> its 53 significand bits, e |-> the
\* exponent of the leading bit]; zero is F64Zero.

NANOS_PER_SEC == 1000000000

F64Zero == [m |-> <<>>, e |-> 0]

RECURSIVE Zeros(_)
Zeros(n) == IF n <= 0 THEN <<>> ELSE <<0>> \o Zeros(n - 1)

\* The bits of a natural number n > 0, most significant first.
RECURSIVE NatBits(_)
NatBits(n) == IF n <= 1 THEN <<n>> ELSE Append(NatBits(n \div 2), n % 2)

\* The natural number a bit sequence denotes.
RECURSIVE BitsNat(_)
BitsNat(b) == IF b = <<>> THEN 0 ELSE 2 * BitsNat(SubSeq(b, 1, Len(b) - 1)) + b[Len(b)]

\* b + 1 on a bit sequence (the length grows by one when b is all ones).
RECURSIVE IncBits(_)
IncBits(b) ==
    IF b = <<>> THEN <<1>>
    ELSE IF b[Len(b)] = 0 THEN Append(SubSeq(b, 1, Len(b) - 1), 1)
    ELSE Append(IncBits(SubSeq(b, 1, Len(b) - 1)), 0)

\* A 53-bit significand as two machine-sized halves, <<high 26 bits, low 27
\* bits>>; the operators on such pairs below are exact for values below 2^55.
LowBits == 2^27

Halves(m) == <<BitsNat(SubSeq(m, 1, 26)), BitsNat(SubSeq(m, 27, 53))>>

HalvesGE(a, b) == a[1] > b[1] \/ (a[1] = b[1] /\ a[2] >= b[2])

HalvesSub(a, b) ==
    IF a[2] >= b[2] THEN <<a[1] - b[1], a[2] - b[2]>>
                    ELSE <<a[1] - b[1] - 1, a[2] + LowBits - b[2]>>

HalvesDouble(a) == <<2 * a[1] + (2 * a[2]) \div LowBits, (2 * a[2]) % LowBits>>

\* Rounding to 53 bits: `bits` starts with a 1 of weight 2^e, and `sticky`
\* says that the exact value has non-zero bits below those given.
F64Round(bits, sticky, e) ==
    LET padded == bits \o Zeros(54 - Len(bits))
        m      == SubSeq(padded, 1, 53)
        guard  == padded[54]
        below  == sticky \/ \E k \in 55..Len(padded) : padded[k] = 1
        up     == guard = 1 /\ (below \/ m[53] = 1)
        m1     == IF up THEN IncBits(m) ELSE m
    IN  IF Len(m1) = 54 THEN [m |-> SubSeq(m1, 1, 53), e |-> e + 1]
                        ELSE [m |-> m1, e |-> e]

\* The binary expansion of r / d for 0 <= r < d < 2^30, `cnt` more bits:
\* <<bits, remainder>>.
RECURSIVE DivBits(_, _, _, _)
DivBits(r, d, cnt, acc) ==
    IF cnt = 0 THEN <<acc, r>>
    ELSE LET b == IF 2 * r >= d THEN 1 ELSE 0
         IN  DivBits(2 * r - b * d, d, cnt - 1, Append(acc, b))

\* How many zero bits the expansion of r / d starts with, and the remainder
\* after them: <<zeros, remainder>> (0 < r < d).
RECURSIVE LeadingZeros(_, _, _)
LeadingZeros(r, d, k) ==
    IF 2 * r >= d THEN <<k, r>> ELSE LeadingZeros(2 * r, d, k + 1)

\* (nanos as f64) / (NANOS_PER_SEC as f64), for 0 <= nanos < NANOS_PER_SEC:
\* both operands are exact, the quotient is rounded once.
F64Frac(nanos) ==
    IF nanos = 0 THEN F64Zero
    ELSE LET z == LeadingZeros(nanos, NANOS_PER_SEC, 0)
             q == DivBits(z[2], NANOS_PER_SEC, 54, <<>>)
         IN  F64Round(q[1], q[2] # 0, -(z[1] + 1))

\* Duration::as_secs_f64 of a Duration of `millis` milliseconds:
\* (secs as f64) + (nanos as f64) / (NANOS_PER_SEC as f64).
AsSecsF64(millis) ==
    LET secs == millis \div 1000
        frac == F64Frac((millis % 1000) * 1000000)
    IN  IF secs = 0 THEN frac
        ELSE IF frac = F64Zero THEN F64Round(NatBits(secs), FALSE, Len(NatBits(secs)) - 1)
        ELSE F64Round(NatBits(secs) \o Zeros(-frac.e - 1) \o frac.m, FALSE,
                      Len(NatBits(secs)) - 1)

\* The binary expansion of r / d for significands r < d, `cnt` more bits:
\* <<bits, remainder>>.
RECURSIVE BigDivBits(_, _, _, _)
BigDivBits(r, d, cnt, acc) ==
    IF cnt = 0 THEN <<acc, r>>
    ELSE LET r2 == HalvesDouble(r)
             b  == IF HalvesGE(r2, d) THEN 1 ELSE 0
         IN  BigDivBits(IF b = 1 THEN HalvesSub(r2, d) ELSE r2, d, cnt - 1, Append(acc, b))

\* x / y in f64, for positive x and y: the significands are divided bit by
\* bit and the quotient is rounded once.
F64Div(x, y) ==
    LET mx == Halves(x.m)
        my == Halves(y.m)
        b0 == IF HalvesGE(mx, my) THEN 1 ELSE 0
        r0 == IF b0 = 1 THEN HalvesSub(mx, my) ELSE mx
        q  == BigDivBits(r0, my, 54, <<>>)
        st == q[2] # <<0, 0>>
    IN  IF b0 = 1 THEN F64Round(<<1>> \o q[1], st, x.e - y.e)
                  ELSE F64Round(q[1], st, x.e - y.e - 1)

\* f64::ceil followed by `as u32`, for a double below 2^31.
F64CeilU32(x) ==
    IF x = F64Zero THEN 0
    ELSE IF x.e < 0 THEN 1
    ELSE IF x.e >= 52 THEN BitsNat(x.m \o Zeros(x.e - 52))
    ELSE BitsNat(SubSeq(x.m, 1, x.e + 1))
         + (IF \E k \in (x.e + 2)..53 : x.m[k] = 1 THEN 1 ELSE 0)

\* calc_intervals: (duration.as_secs_f64() / period.as_secs_f64()).ceil() as u32
CalcIntervals(d, period) ==
    F64CeilU32(F64Div(AsSecsF64(d), AsSecsF64(period)))

\* ------------------------------------------------------------ channel.rs

\* A channel whose initial value is not marked changed.
ChannelNewUnmarked(init, timeout, retry) ==
    [value |-> init, changed |-> FALSE, ack |-> FALSE, ackChanged |-> FALSE,
     closed |-> FALSE, timeout_ms |-> timeout, retry_period_ms |-> retry]

\* A channel whose acknowledgment channel is marked changed from the start.
ChannelNewAckMarked(init, timeout, retry) ==
    [value |-> init, changed |-> TRUE, ack |-> FALSE, ackChanged |-> TRUE,
     closed |-> FALSE, timeout_ms |-> timeout, retry_period_ms |-> retry]

\* Channel::new_with_options: the value channel holds init and is marked
\* changed, the acknowledgment channel holds false and is not, closed is
\* false; the mutators set timeout_ms and retry_period_ms.
ChannelNew(init, timeout, retry) ==
    [value |-> init, changed |-> TRUE, ack |-> FALSE, ackChanged |-> FALSE,
     closed |-> FALSE, timeout_ms |-> timeout, retry_period_ms |-> retry]

\* Before start has built a channel.
NoChannel ==
    [value |-> 0, changed |-> FALSE, ack |-> FALSE, ackChanged |-> FALSE,
     closed |-> FALSE, timeout_ms |-> 0, retry_period_ms |-> 0]

\* The channel's fields are those of c (in the initial state).
ChannelIs(c) ==
    /\ value = c.value
    /\ changed = c.changed
    /\ ack = c.ack
    /\ ackChanged = c.ackChanged
    /\ closed = c.closed
    /\ timeout_ms = c.timeout_ms
    /\ retry_period_ms = c.retry_period_ms

\* The channel's fields become those of c.
ChannelBecomes(c) ==
    /\ value' = c.value
    /\ changed' = c.changed
    /\ ack' = c.ack
    /\ ackChanged' = c.ackChanged
    /\ closed' = c.closed
    /\ timeout_ms' = c.timeout_ms
    /\ retry_period_ms' = c.retry_period_ms

\* Nobody is inside recv or close, and nothing has happened yet.
Idle ==
    /\ rpc = "idle"
    /\ rElapsed = 0
    /\ response = NoResponse
    /\ rStart = NoStart
    /\ received = <<>>
    /\ ppc = "idle"
    /\ cElapsed = 0
    /\ cStart = NoStart
    /\ closes = <<>>
    /\ lost = {}
    /\ ackedSeq = 0
    /\ acks = 0

\* await_with_timeout: after a poll that found nothing at `elapsed`, the
\* sleep of `retry` ends at elapsed + retry; the deadline wins when that is
\* past `timeout` (a sleep ending exactly on the deadline is polled first).
DeadlineFirst(elapsed, retry, timeout) == elapsed + retry > timeout

\* A read that reports Closed only once the slot holds nothing unread.
ReadClosedAfterDrain ==
    /\ rpc = "idle"
    /\ Len(received) < MaxRecvs
    /\ rStart' = [changed |-> changed, sends |-> Len(sent), acks |-> acks]
    /\ IF closed /\ ~changed
         THEN /\ response' = [NoResponse EXCEPT !.kind = "Closed"]
              /\ rpc' = "ack"
         ELSE /\ response' = NoResponse
              /\ rpc' = "poll"
    /\ rElapsed' = 0
    /\ UNCHANGED <<chanVars, received, sendVars, histVars, task, timerVars, otherVars>>

\* Channel::read, first statement: the closed check.
ReadClosed ==
    /\ rpc = "idle"
    /\ Len(received) < MaxRecvs
    /\ rStart' = [changed |-> changed, sends |-> Len(sent), acks |-> acks]
    /\ IF closed
         THEN /\ response' = [NoResponse EXCEPT !.kind = "Closed"]
              /\ rpc' = "ack"
         ELSE /\ response' = NoResponse
              /\ rpc' = "poll"
    /\ rElapsed' = 0
    /\ UNCHANGED <<chanVars, received, sendVars, histVars, task, timerVars, otherVars>>

\* A poll that returns the slot's value whether or not it is new.
ReadPollAlways ==
    /\ rpc = "poll"
    /\ response' = [kind |-> "Value", val |-> value, seq |-> vseq, latest |-> Len(sent)]
    /\ rpc' = "ack"
    /\ changed' = FALSE
    /\ rElapsed' = 0
    /\ UNCHANGED <<value, vseq, ack, ackChanged, closed, timeout_ms, retry_period_ms,
                   rStart, received, sendVars, histVars, task, timerVars, otherVars>>

\* A poll that borrows the slot without marking it seen.
ReadPollBorrow ==
    /\ rpc = "poll"
    /\ IF changed
         THEN /\ response' = [kind |-> "Value", val |-> value, seq |-> vseq,
                              latest |-> Len(sent)]
              /\ rpc' = "ack"
         ELSE /\ response' = response
              /\ rpc' = "sleep"
    /\ changed' = changed
    /\ rElapsed' = IF changed THEN 0 ELSE rElapsed
    /\ UNCHANGED <<value, vseq, ack, ackChanged, closed, timeout_ms, retry_period_ms,
                   rStart, received, sendVars, histVars, task, timerVars, otherVars>>

\* await_with_timeout on rx, the poll closure: borrow_and_update marks the
\* slot seen and has_changed says whether it was new.
ReadPoll ==
    /\ rpc = "poll"
    /\ IF changed
         THEN /\ response' = [kind |-> "Value", val |-> value, seq |-> vseq,
                              latest |-> Len(sent)]
              /\ rpc' = "ack"
         ELSE /\ response' = response
              /\ rpc' = "sleep"
    /\ changed' = FALSE
    /\ rElapsed' = IF changed THEN 0 ELSE rElapsed
    /\ UNCHANGED <<value, vseq, ack, ackChanged, closed, timeout_ms, retry_period_ms,
                   rStart, received, sendVars, histVars, task, timerVars, otherVars>>

\* A sleep in a wait that has no deadline: the time waited is not counted.
ReadSleepNoDeadline ==
    /\ rpc = "sleep"
    /\ rElapsed' = rElapsed
    /\ rpc' = "poll"
    /\ UNCHANGED <<chanVars, response, rStart, received, sendVars, histVars, task, timerVars, otherVars>>

\* await_with_timeout on rx: time::sleep(retry_period) ends before the deadline.
ReadSleep ==
    /\ rpc = "sleep"
    /\ ~DeadlineFirst(rElapsed, retry_period_ms, timeout_ms)
    /\ rElapsed' = rElapsed + retry_period_ms
    /\ rpc' = "poll"
    /\ UNCHANGED <<chanVars, response, rStart, received, sendVars, histVars, task, timerVars, otherVars>>

\* A recv that acknowledges on its way out of a timeout.
ReadTimeoutAcks ==
    /\ rpc = "sleep"
    /\ DeadlineFirst(rElapsed, retry_period_ms, timeout_ms)
    /\ rElapsed' = 0
    /\ rStart' = NoStart
    /\ received' = Append(received,
                          RecvResult([NoResponse EXCEPT !.kind = "Timeout"],
                                     timeout_ms, timeout_ms))
    /\ rpc' = "idle"
    /\ ack' = TRUE
    /\ ackChanged' = TRUE
    /\ UNCHANGED <<value, vseq, changed, closed, timeout_ms, retry_period_ms,
                   response, sendVars, histVars, task, timerVars, otherVars>>

\* await_with_timeout on rx: the deadline; read and recv return
\* Err(Timeout(timeout)) through `?`, and ack is not called.
ReadTimeout ==
    /\ rpc = "sleep"
    /\ DeadlineFirst(rElapsed, retry_period_ms, timeout_ms)
    /\ rElapsed' = 0
    /\ rStart' = NoStart
    /\ received' = Append(received,
                          RecvResult([NoResponse EXCEPT !.kind = "Timeout"],
                                     timeout_ms, timeout_ms))
    /\ rpc' = "idle"
    /\ UNCHANGED <<chanVars, response, sendVars, histVars, task, timerVars, otherVars>>

\* Channel::ack, then recv returns the response.
Ack ==
    /\ rpc = "ack"
    /\ ack' = TRUE
    /\ ackChanged' = TRUE
    /\ received' = Append(received, RecvResult(response, 0, 0))
    /\ response' = NoResponse
    /\ rElapsed' = 0
    /\ rStart' = NoStart
    /\ ackedSeq' = IF response.kind = "Value" THEN response.seq ELSE ackedSeq
    /\ acks' = acks + 1
    /\ rpc' = "idle"
    /\ UNCHANGED <<value, vseq, changed, closed, timeout_ms, retry_period_ms,
                   sendVars, task, timerVars, otherVars>>


\* A write that keeps a value nobody has read yet and drops the new one.
WriteKeepsUnread(v) ==
    /\ value' = IF changed THEN value ELSE v
    /\ vseq' = IF changed THEN vseq ELSE Len(sent) + 1
    /\ changed' = TRUE
    /\ sent' = Append(sent, v)
    /\ lost' = lost
    /\ UNCHANGED <<ack, ackChanged, closed, timeout_ms, retry_period_ms>>

\* Channel::write: send_modify replaces the slot and bumps its version.
Write(v) ==
    /\ value' = v
    /\ vseq' = Len(sent) + 1
    /\ changed' = TRUE
    /\ sent' = Append(sent, v)
    /\ lost' = IF changed THEN lost \cup {vseq} ELSE lost
    /\ UNCHANGED <<ack, ackChanged, closed, timeout_ms, retry_period_ms>>

\* (history) One finished close: "Ok", or "Timeout" with the duration it
\* carries and the time wait_ack waited; the latest write and the write last
\* acknowledged when it returned.
CloseResult(kind, t, elapsed) ==
    [kind |-> kind, t |-> t, elapsed |-> elapsed, sends |-> Len(sent),
     acked |-> ackedSeq]

\* What the caller of close does with its result.  The free producer goes
\* on; the countdown task ends, by `expect` when close failed.
AfterClose(kind) ==
    CASE task = "free"  -> "free"
      [] kind = "Ok"    -> "done"
      [] OTHER          -> "panicked"

\* ChannelSender::close is called: wait_ack starts its wait.
CloseCall ==
    /\ ppc = "idle"
    /\ ppc' = "wait_ack"
    /\ cElapsed' = 0
    /\ cStart' = [changed |-> ackChanged, sends |-> Len(sent), acks |-> acks]
    /\ UNCHANGED <<chanVars, recvVars, closes, sent, lost, histVars>>

\* await_with_timeout on ack_rx, the poll closure: any new version of the
\* acknowledgment ends the wait, whatever the flag's value is.
AckPoll ==
    /\ ppc = "wait_ack"
    /\ ppc' = IF ackChanged THEN "ack_clear" ELSE "ack_sleep"
    /\ ackChanged' = FALSE
    /\ cElapsed' = IF ackChanged THEN 0 ELSE cElapsed
    /\ UNCHANGED <<value, vseq, changed, ack, closed, timeout_ms, retry_period_ms,
                   recvVars, cStart, closes, sent, lost, histVars, task, timerVars, otherVars>>

\* await_with_timeout on ack_rx: time::sleep(ack_poll) ends before the deadline.
AckSleep ==
    /\ ppc = "ack_sleep"
    /\ ~DeadlineFirst(cElapsed, DEFAULT_ACK_POLL_MS, timeout_ms)
    /\ cElapsed' = cElapsed + DEFAULT_ACK_POLL_MS
    /\ ppc' = "wait_ack"
    /\ UNCHANGED <<chanVars, recvVars, cStart, closes, sent, lost, histVars, task, timerVars, otherVars>>

\* A close that marks the channel closed although its wait timed out.
CloseTimeoutMarksClosed ==
    /\ ppc = "ack_sleep"
    /\ DeadlineFirst(cElapsed, DEFAULT_ACK_POLL_MS, timeout_ms)
    /\ cElapsed' = 0
    /\ cStart' = NoStart
    /\ closes' = Append(closes, CloseResult("Timeout", timeout_ms, timeout_ms))
    /\ ppc' = "idle"
    /\ task' = AfterClose("Timeout")
    /\ closed' = TRUE
    /\ UNCHANGED <<value, vseq, changed, ack, ackChanged, timeout_ms, retry_period_ms,
                   recvVars, sent, lost, histVars, timerVars, otherVars>>

\* await_with_timeout on ack_rx: the deadline; wait_ack and close return
\* Err(Timeout(timeout)) through `?`, before anything is written.
CloseTimeout ==
    /\ ppc = "ack_sleep"
    /\ DeadlineFirst(cElapsed, DEFAULT_ACK_POLL_MS, timeout_ms)
    /\ cElapsed' = 0
    /\ cStart' = NoStart
    /\ closes' = Append(closes, CloseResult("Timeout", timeout_ms, timeout_ms))
    /\ ppc' = "idle"
    /\ task' = AfterClose("Timeout")
    /\ UNCHANGED <<chanVars, recvVars, sent, lost, histVars, timerVars, otherVars>>

\* Channel::wait_ack, last statement: ack_tx.send_replace(false), which is
\* itself a new version of the acknowledgment.
AckClear ==
    /\ ppc = "ack_clear"
    /\ ack' = FALSE
    /\ ackChanged' = TRUE
    /\ ppc' = "set_closed"
    /\ UNCHANGED <<value, vseq, changed, closed, timeout_ms, retry_period_ms,
                   recvVars, cElapsed, cStart, closes, sent, lost, histVars, task, timerVars, otherVars>>

\* ChannelSender::close, after wait_ack: *closed = true, Ok(()).
SetClosed ==
    /\ ppc = "set_closed"
    /\ closed' = TRUE
    /\ closes' = Append(closes, CloseResult("Ok", 0, 0))
    /\ cElapsed' = 0
    /\ cStart' = NoStart
    /\ ppc' = "idle"
    /\ task' = AfterClose("Ok")
    /\ UNCHANGED <<value, vseq, changed, ack, ackChanged, timeout_ms, retry_period_ms,
                   recvVars, sent, lost, histVars, timerVars, otherVars>>

\* ------------------------------------------------- a caller of the channel

\* A send that waits until the consumer has read the value in the slot.
SendWaitsForRead(v) ==
    /\ task = "free"
    /\ ppc = "idle"
    /\ Len(sent) <= MaxSends
    /\ ~changed
    /\ Write(v)
    /\ UNCHANGED <<recvVars, ppc, cElapsed, cStart, closes, histVars, task, timerVars, otherVars>>

\* ChannelSender::send(v), called by a producer that sends and closes in any order.
Send(v) ==
    /\ task = "free"
    /\ ppc = "idle"
    /\ Len(sent) <= MaxSends
    /\ Write(v)
    /\ UNCHANGED <<recvVars, ppc, cElapsed, cStart, closes, histVars, task, timerVars, otherVars>>

\* ChannelSender::close(), called by the same producer.
Close ==
    /\ task = "free"
    /\ Len(closes) < MaxCloses
    /\ CloseCall
    /\ UNCHANGED <<task, timerVars, otherVars>>

NoArgs == [period |-> -1, duration |-> -1]

\* The runs that may be started on one AsyncCountdown.
Runs == {1, 2}

\* A run that start has not spawned.
NoRun == [task |-> "none", duration |-> 0, intervals |-> 0, i |-> 0,
          got |-> <<>>, sentVals |-> <<>>]

\* No run spawned on the scheduler's Interval.
NoRuns ==
    /\ ticks = 0
    /\ runs = [r \in Runs |-> NoRun]

\* tokio's watch::channel(init): the initial value is not a change for
\* the Receiver.
WatchNew(init) == [value |-> init, changed |-> FALSE, dropped |-> FALSE, sent |-> <<>>]

\* No ChannelWatcher.
NoWatcher ==
    /\ watch = WatchNew(0)
    /\ wTimeout = 0
    /\ wpc = "idle"
    /\ nexts = <<>>

\* Before Countdown::try_new.
NoCountdown == [duration |-> 0, interval |-> 0, send_retry_limit |-> 0, unwrap |-> FALSE]

\* start has not set its locals.
NoLoop == [intervals |-> 0, i |-> 0, retries_left |-> 0]

\* broadcast::channel(1) in try_new, whose Receiver is dropped at once.
BroadcastNew == [tail |-> 0, last |-> 0, other |-> FALSE, rx |-> "none",
                 next |-> 0, at |-> 0]

\* No broadcast Countdown.
NoBroadcast ==
    /\ countdown = NoCountdown
    /\ newResult = [kind |-> "None"]
    /\ bpc = "none"
    /\ loop = NoLoop
    /\ startErr = [kind |-> "None"]
    /\ emitted = <<>>
    /\ bcast = BroadcastNew
    /\ brecv = <<>>
    /\ eqs = <<>>

\* No second run on the scheduler, no ChannelWatcher, no broadcast Countdown.
NoOthers == NoRuns /\ NoWatcher /\ NoBroadcast

\* No AsyncCountdown: the channel of SpecChannel is built by its caller.
NoTimer ==
    /\ interval = 0
    /\ tryNewResult = [kind |-> "None"]
    /\ startResult = [kind |-> "None"]
    /\ duration = 0
    /\ period_ms = 0
    /\ intervals = 0
    /\ i = 0
    /\ overflowChecks = TRUE
    /\ args = NoArgs
    /\ NoOthers

InitChannel ==
    /\ task = "free"
    /\ \E init \in Values, o \in Options :
          /\ ChannelIs(ChannelNew(init, o[1], o[2]))
          /\ vseq = 1
          /\ sent = <<init>>
    /\ Idle
    /\ NoTimer

NextChannel ==
    \/ \E v \in Values : Send(v)
    \/ Close
    \/ ReadClosed
    \/ ReadPoll
    \/ ReadSleep
    \/ ReadTimeout
    \/ Ack
    \/ AckPoll
    \/ AckSleep
    \/ CloseTimeout
    \/ AckClear
    \/ SetClosed

\* One handshake channel, one consumer calling recv, one producer calling
\* send and close in any order.
SpecChannel == InitChannel /\ [][NextChannel]_vars

\* The options of a channel whose producer only sends: Channel::new, with
\* the defaults, and with_timeout(500) as in the tests, besides those of
\* Options.
RecvOptions ==
    {<<DEFAULT_TIMEOUT_MS, DEFAULT_PERIOD_MS>>, <<500, DEFAULT_PERIOD_MS>>} \cup Options

InitRecv ==
    /\ task = "free"
    /\ \E init \in Values, o \in RecvOptions :
          /\ ChannelIs(ChannelNew(init, o[1], o[2]))
          /\ vseq = 1
          /\ sent = <<init>>
    /\ Idle
    /\ NoTimer

NextRecv ==
    \/ \E v \in Values : Send(v)
    \/ ReadClosed
    \/ ReadPoll
    \/ ReadSleep
    \/ ReadTimeout
    \/ Ack

\* One handshake channel, one consumer calling recv, one producer that
\* sends and never closes.
SpecRecv == InitRecv /\ [][NextRecv]_vars

\* -------------------------------------------------------------- timer.rs

\* The limits validate_period and validate_duration compare with.
HOUR_LIMIT == 3600 * 1000
DAY_LIMIT  == 86400

\* u64 arithmetic.  The model's integers are 32 bits wide, so a u64 is kept
\* as the integer congruent to it modulo 2^64 that lies nearest zero: a
\* negative n stands for 2^64 + n, the value a wrapping subtraction leaves.
U64Less(a, b) ==
    IF (a < 0) = (b < 0) THEN a < b ELSE b < 0

\* A validate_period that also rejects the limit itself.
ValidatePeriodBelowLimit(period) ==
    IF period = 0 THEN [kind |-> "ZeroInterval"]
    ELSE IF period >= HOUR_LIMIT
         THEN [kind |-> "IntervalGreaterThanOneHour", period |-> period]
    ELSE [kind |-> "Ok"]

\* validate_period
ValidatePeriod(period) ==
    IF period = 0 THEN [kind |-> "ZeroInterval"]
    ELSE IF period > HOUR_LIMIT
         THEN [kind |-> "IntervalGreaterThanOneHour", period |-> period]
    ELSE [kind |-> "Ok"]

\* AsyncCountdown::validate_duration, with the period of self.interval
ValidateDuration(d, period) ==
    IF d = 0 THEN [kind |-> "ZeroDuration"]
    ELSE IF d > DAY_LIMIT
         THEN [kind |-> "DurationGreaterThanOneDay", duration |-> d]
    ELSE IF period > d
         THEN [kind |-> "DurationSmallerThanPeriod", duration |-> d, period |-> period]
    ELSE [kind |-> "Ok"]

\* AsyncCountdown::try_new(period_millis)
TryNew(period) ==
    /\ tryNewResult.kind = "None"
    /\ tryNewResult' = ValidatePeriod(period)
    /\ interval' = IF ValidatePeriod(period).kind = "Ok" THEN period ELSE interval
    /\ args' = [args EXCEPT !.period = period]
    /\ UNCHANGED <<chanVars, recvVars, sendVars, histVars, task, startResult, duration,
                   period_ms, intervals, i, overflowChecks, otherVars>>

\* A start that builds the channel and spawns the task before it validates.
StartSpawnsFirst(d) ==
    /\ tryNewResult.kind = "Ok"
    /\ startResult.kind = "None"
    /\ startResult' = ValidateDuration(d, interval)
    /\ ChannelBecomes(ChannelNew(d, DEFAULT_TIMEOUT_MS, DEFAULT_PERIOD_MS))
    /\ vseq' = 1
    /\ sent' = <<d>>
    /\ duration' = d
    /\ task' = "spawned"
    /\ args' = [args EXCEPT !.duration = d]
    /\ UNCHANGED <<recvVars, ppc, cElapsed, cStart, closes, lost, histVars, interval,
                   tryNewResult, period_ms, intervals, i, overflowChecks, otherVars>>

\* AsyncCountdown::start(duration_millis): validate, then build the channel
\* with Channel::new(duration_millis) and spawn countdown.
Start(d) ==
    /\ tryNewResult.kind = "Ok"
    /\ startResult.kind = "None"
    /\ startResult' = ValidateDuration(d, interval)
    /\ IF ValidateDuration(d, interval).kind = "Ok"
         THEN /\ ChannelBecomes(ChannelNew(d, DEFAULT_TIMEOUT_MS, DEFAULT_PERIOD_MS))
              /\ vseq' = 1
              /\ sent' = <<d>>
              /\ duration' = d
              /\ task' = "spawned"
         ELSE UNCHANGED <<chanVars, sent, duration, task>>
    /\ args' = [args EXCEPT !.duration = d]
    /\ UNCHANGED <<recvVars, ppc, cElapsed, cStart, closes, lost, histVars, interval,
                   tryNewResult, period_ms, intervals, i, overflowChecks, otherVars>>

\* countdown, up to the loop: the period, calc_intervals, period_ms.
CountdownBegin ==
    /\ task = "spawned"
    /\ period_ms' = interval
    /\ intervals' = CalcIntervals(duration, interval)
    /\ i' = 0
    /\ task' = "tick"
    /\ UNCHANGED <<chanVars, recvVars, sendVars, histVars, interval, tryNewResult,
                   startResult, duration, overflowChecks, args, otherVars>>

\* countdown, in the loop: interval.tick() completes.
Tick ==
    /\ task = "tick"
    /\ task' = "send"
    /\ UNCHANGED <<chanVars, recvVars, sendVars, histVars, timerVars, otherVars>>

\* countdown, in the loop: tx.send(duration - period_ms * i).  The
\* subtraction is on u64: below zero it panics in a build with overflow
\* checks and wraps in one without.  After the last index the loop ends.
TickSend ==
    /\ task = "send"
    /\ IF duration - period_ms * i < 0 /\ overflowChecks
         THEN /\ task' = "panicked"
              /\ UNCHANGED <<chanVars, sent, lost, i>>
         ELSE /\ Write(duration - period_ms * i)
              /\ i' = i + 1
              /\ task' = IF i + 1 > intervals THEN "close" ELSE "tick"
    /\ UNCHANGED <<recvVars, ppc, cElapsed, cStart, closes, histVars, interval,
                   tryNewResult, startResult, duration, period_ms, intervals,
                   overflowChecks, args, otherVars>>

\* countdown, after the loop: tx.close() is called.
CountdownClose ==
    /\ task = "close"
    /\ CloseCall
    /\ task' = "closing"
    /\ UNCHANGED <<timerVars, otherVars>>

\* The (period, duration) pairs of the runs explored: exact multiples, a
\* duration that is no multiple of the period, 270/90, whose quotient in
\* f64 is just above 3, and the durations 0 and 50 that start rejects.
RunPeriods   == {90, 100}
RunDurations == {0, 50, 100, 200, 250, 270}

\* Before try_new: no scheduler, no channel, no task.
InitTimer ==
    /\ ChannelIs(NoChannel)
    /\ vseq = 0
    /\ sent = <<>>
    /\ Idle
    /\ task = "none"
    /\ interval = 0
    /\ tryNewResult = [kind |-> "None"]
    /\ startResult = [kind |-> "None"]
    /\ duration = 0
    /\ period_ms = 0
    /\ intervals = 0
    /\ i = 0
    /\ overflowChecks \in BOOLEAN
    /\ args = NoArgs
    /\ NoOthers

\* The consumer holds the receiver start returned.
Started == startResult.kind = "Ok"

NextCountdown ==
    \/ \E p \in RunPeriods : TryNew(p)
    \/ \E d \in RunDurations : Start(d)
    \/ CountdownBegin
    \/ Tick
    \/ TickSend
    \/ CountdownClose
    \/ AckPoll
    \/ AckSleep
    \/ CloseTimeout
    \/ AckClear
    \/ SetClosed
    \/ (Started /\ ReadClosed)
    \/ ReadPoll
    \/ ReadSleep
    \/ ReadTimeout
    \/ Ack

\* One AsyncCountdown, one start, the spawned countdown task and the
\* consumer of the receiver that start returned.
SpecCountdown == InitTimer /\ [][NextCountdown]_vars

\* The arguments of try_new and start explored by SpecValid: the limits of
\* validate_period and validate_duration and their neighbours.
Periods   == {0, 1, 7, 100, 1000, 2000, 3600000, 3600001}
Durations == {0, 1, 250, 1000, 1543, 86400, 86401, 100000, 3600000, 86400000, 86400001}

NextValid ==
    \/ \E p \in Periods : TryNew(p)
    \/ \E d \in Durations : Start(d)

\* try_new and start on every pair of Periods and Durations.
SpecValid == InitTimer /\ [][NextValid]_vars

\* ---- two runs on one AsyncCountdown: timer.rs ---------------------------
\* start clones the Arc of the scheduler's Interval into every countdown
\* task it spawns, so the tasks of two starts tick the same Interval.  The
\* Interval completes its ticks one after another, tick n being due
\* (n - 1) periods after try_new; ticks counts them.

\* start, called for run r: validate_duration, then the task is spawned
\* with a clone of the Interval.
StartRun(r, d) ==
    /\ tryNewResult.kind = "Ok"
    /\ runs[r].task = "none"
    /\ \A q \in Runs : q < r => runs[q].task # "none"
    /\ ValidateDuration(d, interval).kind = "Ok"
    /\ runs' = [runs EXCEPT ![r] = [NoRun EXCEPT !.task = "spawned", !.duration = d]]
    /\ UNCHANGED <<chanVars, recvVars, sendVars, histVars, task, timerVars, ticks,
                   watcherVars, bcVars>>

\* countdown of run r, up to the loop: the period and calc_intervals.
RunBegin(r) ==
    /\ runs[r].task = "spawned"
    /\ runs' = [runs EXCEPT ![r].task = "tick",
                            ![r].intervals = CalcIntervals(runs[r].duration, interval),
                            ![r].i = 0]
    /\ UNCHANGED <<chanVars, recvVars, sendVars, histVars, task, timerVars, ticks,
                   watcherVars, bcVars>>

\* countdown of run r, in the loop: it takes the lock and the Interval's
\* next tick completes for it.
RunTick(r) ==
    /\ runs[r].task = "tick"
    /\ ticks' = ticks + 1
    /\ runs' = [runs EXCEPT ![r].task = "send",
                            ![r].got = Append(runs[r].got, ticks + 1)]
    /\ UNCHANGED <<chanVars, recvVars, sendVars, histVars, task, timerVars,
                   watcherVars, bcVars>>

\* countdown of run r, in the loop: tx.send(duration - period_ms * i) on
\* the run's own channel, the u64 subtraction as in TickSend; after the last
\* index the loop ends.
RunSend(r) ==
    /\ runs[r].task = "send"
    /\ LET run == runs[r]
           v   == run.duration - interval * run.i
       IN  runs' = [runs EXCEPT ![r] =
               IF v < 0 /\ overflowChecks
                 THEN [run EXCEPT !.task = "panicked"]
                 ELSE [run EXCEPT !.sentVals = Append(run.sentVals, v),
                                  !.i = run.i + 1,
                                  !.task = IF run.i + 1 > run.intervals
                                             THEN "close" ELSE "tick"]]
    /\ UNCHANGED <<chanVars, recvVars, sendVars, histVars, task, timerVars, ticks,
                   watcherVars, bcVars>>

\* countdown of run r, after the loop: tx.close() returns Ok, or its
\* timeout makes expect panic; which one is up to the run's consumer.
RunClose(r) ==
    /\ runs[r].task = "close"
    /\ \E end \in {"done", "panicked"} : runs' = [runs EXCEPT ![r].task = end]
    /\ UNCHANGED <<chanVars, recvVars, sendVars, histVars, task, timerVars, ticks,
                   watcherVars, bcVars>>

\* The durations of the two runs, multiples of the one period.
SharedPeriods   == {100}
SharedDurations == {100, 200, 300}

NextShared ==
    \/ \E p \in SharedPeriods : TryNew(p)
    \/ \E r \in Runs, d \in SharedDurations : StartRun(r, d)
    \/ \E r \in Runs : RunBegin(r)
    \/ \E r \in Runs : RunTick(r)
    \/ \E r \in Runs : RunSend(r)
    \/ \E r \in Runs : RunClose(r)

\* One AsyncCountdown and the countdown tasks of two calls of start.
SpecShared == InitTimer /\ [][NextShared]_vars

\* ------------------------------------------------------------ watcher.rs

\* const DEFAULT_TIMEOUT_MS: u32 of watcher.rs.
WATCHER_DEFAULT_TIMEOUT_MS == 1000

\* The bound on the values sent on the watch channel, and on the calls of next.
MaxWatchSends == 3
MaxNexts == 3

\* The values of the watch channel (u32 in the tests): zero and two others.
WatchValues == {0, 1, 42}

\* Zeroable::is_zero for the unsigned integers.
IsZero(v) == v = 0

\* (history) One finished next: Ok(None), Ok(Some(val)) or
\* Err(Timeout(duration)), with the value borrow read and how many values
\* had been sent when it returned.
NextResult(kind, val, t) ==
    [kind |-> kind, val |-> val, t |-> t, read |-> watch.value,
     sends |-> Len(watch.sent)]

\* Sender::send(v) on the watch channel.
WatchSend(v) ==
    /\ ~watch.dropped
    /\ Len(watch.sent) < MaxWatchSends
    /\ watch' = [watch EXCEPT !.value = v, !.changed = TRUE,
                              !.sent = Append(watch.sent, v)]
    /\ UNCHANGED <<chanVars, recvVars, sendVars, histVars, task, timerVars,
                   sharedVars, bcVars, wTimeout, wpc, nexts>>

\* The Sender of the watch channel is dropped.
WatchDrop ==
    /\ ~watch.dropped
    /\ watch' = [watch EXCEPT !.dropped = TRUE]
    /\ UNCHANGED <<chanVars, recvVars, sendVars, histVars, task, timerVars,
                   sharedVars, bcVars, wTimeout, wpc, nexts>>

\* ChannelWatcher::next is called: it waits in time::timeout for changed().
NextCall ==
    /\ wpc = "idle"
    /\ Len(nexts) < MaxNexts
    /\ wpc' = "changed"
    /\ UNCHANGED <<chanVars, recvVars, sendVars, histVars, task, timerVars,
                   sharedVars, bcVars, watch, wTimeout, nexts>>

\* next: changed() returns Ok, marking the value seen.
NextChanged ==
    /\ wpc = "changed"
    /\ watch.changed
    /\ watch' = [watch EXCEPT !.changed = FALSE]
    /\ wpc' = "borrow"
    /\ UNCHANGED <<chanVars, recvVars, sendVars, histVars, task, timerVars,
                   sharedVars, bcVars, wTimeout, nexts>>

\* next: changed() returns Err, the Sender being dropped with nothing
\* unseen, and unwrap panics.
NextChangedErr ==
    /\ wpc = "changed"
    /\ ~watch.changed
    /\ watch.dropped
    /\ wpc' = "panicked"
    /\ UNCHANGED <<chanVars, recvVars, sendVars, histVars, task, timerVars,
                   sharedVars, bcVars, watch, wTimeout, nexts>>

\* next: the timeout elapses with no new value; Err(Timeout(timeout)).
NextTimeout ==
    /\ wpc = "changed"
    /\ ~watch.changed
    /\ ~watch.dropped
    /\ nexts' = Append(nexts, NextResult("Timeout", 0, wTimeout))
    /\ wpc' = "idle"
    /\ UNCHANGED <<chanVars, recvVars, sendVars, histVars, task, timerVars,
                   sharedVars, bcVars, watch, wTimeout>>

\* A next that returns whatever value it borrowed as Some.
NextBorrowAlwaysSome ==
    /\ wpc = "borrow"
    /\ nexts' = Append(nexts, NextResult("Some", watch.value, 0))
    /\ wpc' = "idle"
    /\ UNCHANGED <<chanVars, recvVars, sendVars, histVars, task, timerVars,
                   sharedVars, bcVars, watch, wTimeout>>

\* next: borrow() reads the value the channel holds now, without marking
\* it seen; Ok(None) if it is zero and Ok(Some(val)) otherwise.
NextBorrow ==
    /\ wpc = "borrow"
    /\ LET val == watch.value
       IN  nexts' = Append(nexts, IF IsZero(val)
                                    THEN NextResult("None", 0, 0)
                                    ELSE NextResult("Some", val, 0))
    /\ wpc' = "idle"
    /\ UNCHANGED <<chanVars, recvVars, sendVars, histVars, task, timerVars,
                   sharedVars, bcVars, watch, wTimeout>>

\* A ChannelWatcher built by channel! from the Receiver of a new watch
\* channel, with the default timeout or one of its own.
InitWatcher ==
    /\ ChannelIs(NoChannel)
    /\ vseq = 0
    /\ sent = <<>>
    /\ Idle
    /\ task = "none"
    /\ interval = 0
    /\ tryNewResult = [kind |-> "None"]
    /\ startResult = [kind |-> "None"]
    /\ duration = 0
    /\ period_ms = 0
    /\ intervals = 0
    /\ i = 0
    /\ overflowChecks = TRUE
    /\ args = NoArgs
    /\ NoRuns
    /\ NoBroadcast
    /\ \E init \in WatchValues : watch = WatchNew(init)
    /\ wTimeout \in {WATCHER_DEFAULT_TIMEOUT_MS, 500}
    /\ wpc = "idle"
    /\ nexts = <<>>

NextWatcher ==
    \/ \E v \in WatchValues : WatchSend(v)
    \/ WatchDrop
    \/ NextCall
    \/ NextChanged
    \/ NextChangedErr
    \/ NextTimeout
    \/ NextBorrow

\* One ChannelWatcher and the Sender of its watch channel.
SpecWatcher == InitWatcher /\ [][NextWatcher]_vars

\* ------------------------------------------- countdown.rs and src/timer.rs
\* The broadcast Countdown.  Durations are in milliseconds.

\* Duration::from_secs(86_400) and Duration::from_secs(3600).
ONE_DAY_MS  == 86400 * 1000
ONE_HOUR_MS == 3600 * 1000

\* An Error: InvalidCountdown(variant with its payload) or
\* CountdownError(SendError(val)); the fields a variant lacks are 0.
InvalidCountdown(variant, d, p) ==
    [kind |-> "InvalidCountdown", variant |-> variant, duration |-> d,
     interval |-> p, val |-> 0]
CountdownError(v) ==
    [kind |-> "CountdownError", variant |-> "SendError", duration |-> 0,
     interval |-> 0, val |-> v]
Passed == [kind |-> "Ok", variant |-> "", duration |-> 0, interval |-> 0, val |-> 0]

\* impl PartialEq for Error
ErrorEq(a, b) ==
    IF a.kind = "InvalidCountdown" /\ b.kind = "InvalidCountdown" THEN TRUE
    ELSE IF a.kind = "CountdownError" /\ b.kind = "CountdownError" THEN a.val = b.val
    ELSE FALSE

\* countdown.rs, validate_duration
BValidateDuration(d) ==
    IF d = 0 THEN InvalidCountdown("ZeroDuration", 0, 0)
    ELSE IF d > ONE_DAY_MS THEN InvalidCountdown("DurationGreaterThanOneDay", d, 0)
    ELSE Passed

\* countdown.rs, validate_interval
BValidateInterval(p) ==
    IF p = 0 THEN InvalidCountdown("ZeroInterval", 0, 0)
    ELSE IF p > ONE_HOUR_MS THEN InvalidCountdown("IntervalGreaterThanOneHour", 0, p)
    ELSE Passed

\* countdown.rs, the checks of try_new in their order.
BValidate(d, p) ==
    IF BValidateDuration(d).kind # "Ok" THEN BValidateDuration(d)
    ELSE IF BValidateInterval(p).kind # "Ok" THEN BValidateInterval(p)
    ELSE IF p > d THEN InvalidCountdown("IntervalGreaterThanDuration", d, p)
    ELSE Passed

\* src/timer.rs, the checks of try_new in their order.
TimerValidate(d, p) ==
    IF d = 0 THEN InvalidCountdown("ZeroDuration", 0, 0)
    ELSE IF p = 0 THEN InvalidCountdown("ZeroInterval", 0, 0)
    ELSE IF p > d THEN InvalidCountdown("IntervalGreaterThanDuration", d, p)
    ELSE IF d > ONE_DAY_MS THEN InvalidCountdown("DurationGreaterThanOneDay", d, 0)
    ELSE IF p > ONE_HOUR_MS THEN InvalidCountdown("IntervalGreaterThanOneHour", 0, p)
    ELSE Passed

\* What the other variables do on a step of the broadcast Countdown.
BroadcastOnly == UNCHANGED <<chanVars, recvVars, sendVars, histVars, task, timerVars,
                             sharedVars, watcherVars>>

\* The Countdown try_new builds once the checks have passed.
Built(result, d, p, limit, unwrap) ==
    /\ newResult' = result
    /\ IF result.kind = "Ok"
         THEN /\ countdown' = [duration |-> d, interval |-> p,
                               send_retry_limit |-> limit, unwrap |-> unwrap]
              /\ bpc' = "ready"
         ELSE UNCHANGED <<countdown, bpc>>
    /\ UNCHANGED <<loop, startErr, emitted, bcast, brecv, eqs>>
    /\ BroadcastOnly

\* countdown.rs, Countdown::try_new(duration, interval, send_retry_limit)
BTryNew(d, p, limit) ==
    /\ newResult.kind = "None"
    /\ Built(BValidate(d, p), d, p, limit, FALSE)

\* src/timer.rs, Countdown::try_new(duration, interval)
TimerTryNew(d, p) ==
    /\ newResult.kind = "None"
    /\ Built(TimerValidate(d, p), d, p, 0, TRUE)

\* start, up to the loop: intervals and retries_left.
BStart ==
    /\ bpc = "ready"
    /\ LET n == CalcIntervals(countdown.duration, countdown.interval)
       IN  loop' = [intervals |-> n, i |-> n,
                    retries_left |-> countdown.send_retry_limit]
    /\ bpc' = "tick"
    /\ UNCHANGED <<countdown, newResult, startErr, emitted, bcast, brecv, eqs>>
    /\ BroadcastOnly

\* start, in the loop: interval.tick() completes.
BTick ==
    /\ bpc = "tick"
    /\ bpc' = "send"
    /\ UNCHANGED <<countdown, newResult, loop, startErr, emitted, bcast, brecv, eqs>>
    /\ BroadcastOnly

\* How many Receivers of the broadcast channel are alive.
Receivers == (IF bcast.other THEN 1 ELSE 0) + (IF bcast.rx = "live" THEN 1 ELSE 0)

\* The loop moves on: to the next lower i, or out after i = 0.
Advance(retries) ==
    /\ loop' = [loop EXCEPT !.i = IF loop.i = 0 THEN 0 ELSE loop.i - 1,
                            !.retries_left = retries]
    /\ bpc' = IF loop.i = 0 THEN "done" ELSE "tick"

\* A start that gives up one failure early.
BSendGivesUpEarly ==
    /\ bpc = "send"
    /\ LET time_left == countdown.interval * loop.i
       IN  /\ emitted' = Append(emitted, [val |-> time_left, ok |-> Receivers > 0])
           /\ IF Receivers = 0
                THEN /\ IF countdown.unwrap
                          THEN bpc' = "panicked" /\ UNCHANGED <<loop, startErr>>
                          ELSE IF loop.retries_left <= 1
                            THEN /\ bpc' = "failed"
                                 /\ startErr' = CountdownError(time_left)
                                 /\ UNCHANGED loop
                            ELSE /\ Advance(loop.retries_left - 1)
                                 /\ UNCHANGED startErr
                     /\ UNCHANGED bcast
                ELSE /\ bcast' = [bcast EXCEPT !.tail = bcast.tail + 1,
                                               !.last = time_left]
                     /\ Advance(countdown.send_retry_limit)
                     /\ UNCHANGED startErr
    /\ UNCHANGED <<countdown, newResult, brecv, eqs>>
    /\ BroadcastOnly

\* A start that stays on the tick whose send failed and sends it again.
BSendRetriesSameTick ==
    /\ bpc = "send"
    /\ LET time_left == countdown.interval * loop.i
       IN  /\ emitted' = Append(emitted, [val |-> time_left, ok |-> Receivers > 0])
           /\ IF Receivers = 0
                THEN /\ IF countdown.unwrap
                          THEN bpc' = "panicked" /\ UNCHANGED <<loop, startErr>>
                          ELSE IF loop.retries_left = 0
                            THEN /\ bpc' = "failed"
                                 /\ startErr' = CountdownError(time_left)
                                 /\ UNCHANGED loop
                            ELSE /\ loop' = [loop EXCEPT !.retries_left = loop.retries_left - 1]
                                 /\ bpc' = "tick"
                                 /\ UNCHANGED startErr
                     /\ UNCHANGED bcast
                ELSE /\ bcast' = [bcast EXCEPT !.tail = bcast.tail + 1,
                                               !.last = time_left]
                     /\ Advance(countdown.send_retry_limit)
                     /\ UNCHANGED startErr
    /\ UNCHANGED <<countdown, newResult, brecv, eqs>>
    /\ BroadcastOnly

\* start, in the loop: time_left = period * i is sent.  The send fails when
\* no Receiver is alive: timer.rs unwraps it; countdown.rs returns
\* Err(CountdownError(e)) if retries_left is 0 and decrements it otherwise.
\* A send that succeeds sets retries_left to send_retry_limit again.
BSend ==
    /\ bpc = "send"
    /\ LET time_left == countdown.interval * loop.i
       IN  /\ emitted' = Append(emitted, [val |-> time_left, ok |-> Receivers > 0])
           /\ IF Receivers = 0
                THEN /\ IF countdown.unwrap
                          THEN bpc' = "panicked" /\ UNCHANGED <<loop, startErr>>
                          ELSE IF loop.retries_left = 0
                            THEN /\ bpc' = "failed"
                                 /\ startErr' = CountdownError(time_left)
                                 /\ UNCHANGED loop
                            ELSE /\ Advance(loop.retries_left - 1)
                                 /\ UNCHANGED startErr
                     /\ UNCHANGED bcast
                ELSE /\ bcast' = [bcast EXCEPT !.tail = bcast.tail + 1,
                                               !.last = time_left]
                     /\ Advance(countdown.send_retry_limit)
                     /\ UNCHANGED startErr
    /\ UNCHANGED <<countdown, newResult, brecv, eqs>>
    /\ BroadcastOnly

\* start borrows the Countdown mutably until it returns, and watch borrows
\* it too: watch can be called only while start is not running.
StartRunning == bpc \in {"tick", "send"}

\* Countdown::watch, called by the consumer: a Receiver of what is sent
\* from now on.
Watch ==
    /\ bpc \notin {"none", "panicked"}
    /\ ~StartRunning
    /\ bcast.rx = "none"
    /\ bcast' = [bcast EXCEPT !.rx = "live", !.next = bcast.tail, !.at = Len(emitted)]
    /\ UNCHANGED <<countdown, newResult, bpc, loop, startErr, emitted, brecv, eqs>>
    /\ BroadcastOnly

\* Receiver::resubscribe on another live Receiver gives the consumer its
\* Receiver, also while start is running.
Resubscribe ==
    /\ bcast.other
    /\ bcast.rx = "none"
    /\ bcast' = [bcast EXCEPT !.rx = "live", !.next = bcast.tail, !.at = Len(emitted)]
    /\ UNCHANGED <<countdown, newResult, bpc, loop, startErr, emitted, brecv, eqs>>
    /\ BroadcastOnly

\* Countdown::watch, called by someone else.
OtherWatch ==
    /\ bpc \notin {"none", "panicked"}
    /\ ~StartRunning
    /\ ~bcast.other
    /\ bcast' = [bcast EXCEPT !.other = TRUE]
    /\ UNCHANGED <<countdown, newResult, bpc, loop, startErr, emitted, brecv, eqs>>
    /\ BroadcastOnly

\* The other Receiver is dropped.
OtherDrop ==
    /\ bcast.other
    /\ bcast' = [bcast EXCEPT !.other = FALSE]
    /\ UNCHANGED <<countdown, newResult, bpc, loop, startErr, emitted, brecv, eqs>>
    /\ BroadcastOnly

\* The consumer's Receiver is dropped.
RxDrop ==
    /\ bcast.rx = "live"
    /\ bcast' = [bcast EXCEPT !.rx = "dropped"]
    /\ UNCHANGED <<countdown, newResult, bpc, loop, startErr, emitted, brecv, eqs>>
    /\ BroadcastOnly

\* Receiver::recv of the consumer returns.  The channel of capacity 1
\* retains the last value sent: a Receiver that is one behind gets it, one
\* that is further behind gets Err(Lagged(n)) and is moved up to it (one
\* that has seen everything waits).
BRecv ==
    /\ bcast.rx = "live"
    /\ bcast.next < bcast.tail
    /\ IF bcast.next = bcast.tail - 1
         THEN /\ brecv' = Append(brecv, [kind |-> "Value", val |-> bcast.last])
              /\ bcast' = [bcast EXCEPT !.next = bcast.tail]
         ELSE /\ brecv' = Append(brecv, [kind |-> "Lagged",
                                         val |-> bcast.tail - 1 - bcast.next])
              /\ bcast' = [bcast EXCEPT !.next = bcast.tail - 1]
    /\ UNCHANGED <<countdown, newResult, bpc, loop, startErr, emitted, eqs>>
    /\ BroadcastOnly

\* No channel, scheduler, second run or watcher beside the broadcast Countdown.
InitBroadcast ==
    /\ ChannelIs(NoChannel)
    /\ vseq = 0
    /\ sent = <<>>
    /\ Idle
    /\ task = "none"
    /\ interval = 0
    /\ tryNewResult = [kind |-> "None"]
    /\ startResult = [kind |-> "None"]
    /\ duration = 0
    /\ period_ms = 0
    /\ intervals = 0
    /\ i = 0
    /\ overflowChecks = TRUE
    /\ args = NoArgs
    /\ NoOthers

\* The Countdowns explored: that of the tests, (1000, 100) with the retry
\* limit 5, (300, 100) with the limits 0 and 1, a duration that is no
\* multiple of the interval, and 270/90, whose quotient in f64 is just
\* above 3.
BConfigs ==
    {<<1000, 100, 5>>, <<300, 100, 0>>, <<300, 100, 1>>, <<250, 100, 1>>,
     <<270, 90, 1>>}
TimerConfigs == {<<300, 100>>, <<250, 100>>}

NextBroadcast ==
    \/ \E c \in BConfigs : BTryNew(c[1], c[2], c[3])
    \/ \E c \in TimerConfigs : TimerTryNew(c[1], c[2])
    \/ BStart
    \/ BTick
    \/ BSend
    \/ Watch
    \/ Resubscribe
    \/ OtherWatch
    \/ OtherDrop
    \/ RxDrop
    \/ BRecv

\* One broadcast Countdown, one call of start, the consumer's Receiver and
\* another one.
SpecBroadcast == InitBroadcast /\ [][NextBroadcast]_vars

\* How many times the error of try_new is compared.
MaxCompares == 2

\* The errors the tests compare with: those of the construction tests and
\* that of the retry test.
ExpectedErrors ==
    {InvalidCountdown("IntervalGreaterThanDuration", 1000, 2000),
     InvalidCountdown("ZeroDuration", 0, 0),
     InvalidCountdown("ZeroInterval", 0, 0),
     InvalidCountdown("DurationGreaterThanOneDay", 86401 * 1000, 0),
     InvalidCountdown("IntervalGreaterThanOneHour", 0, 3601 * 1000),
     CountdownError(500)}

\* assert_eq!(result.expect_err(..), expected): the error try_new returned
\* is compared with an expected one by Error's ==.
Compare(expected) ==
    /\ newResult.kind = "InvalidCountdown"
    /\ Len(eqs) < MaxCompares
    /\ eqs' = Append(eqs, [actual |-> newResult, expected |-> expected,
                           eq |-> ErrorEq(newResult, expected)])
    /\ UNCHANGED <<countdown, newResult, bpc, loop, startErr, emitted, bcast, brecv>>
    /\ BroadcastOnly

\* The arguments of try_new of the construction tests and their neighbours.
BDurations == {0, 1, 1000, 86400 * 1000, 86401 * 1000}
BIntervals == {0, 100, 2000, 3600 * 1000, 3601 * 1000}

NextErrors ==
    \/ \E d \in BDurations, p \in BIntervals : BTryNew(d, p, 0)
    \/ \E e \in ExpectedErrors : Compare(e)

\* try_new of countdown.rs on every pair of BDurations and BIntervals, and
\* its error compared with the expected ones.
SpecErrors == InitBroadcast /\ [][NextErrors]_vars

\* ------------------------------------------------------------ properties

\* The received results that are values, by position.
ValueAt(k) == received[k].kind = "Value"

\* C1: close() does not complete until the consumer has acknowledged the
\* last sent value: whenever a close has returned Ok, the write last
\* acknowledged by a recv is the latest write.
C1_CloseWaitsForLastValue ==
    \A k \in 1..Len(closes) :
        closes[k].kind = "Ok" => closes[k].acked = closes[k].sends

\* C2: a consumer of a countdown observes the final value 0 exactly once
\* before Closed: a Closed result is preceded by a Value(0) result, and
\* Value(0) is not received twice.
C2_ZeroBeforeClosed ==
    /\ \A j \in 1..Len(received) :
          received[j].kind = "Closed" =>
              \E k \in 1..(j - 1) : ValueAt(k) /\ received[k].val = 0
    /\ Cardinality({k \in 1..Len(received) : ValueAt(k) /\ received[k].val = 0}) <= 1

C4_ReceivedStrictlyDecreasing ==
    \A j \in 1..Len(received) : \A k \in 1..(j - 1) :
        (ValueAt(j) /\ ValueAt(k)) => U64Less(received[j].val, received[k].val)

\* C5: closed is terminal: after a recv returned Closed, every later recv
\* returns Closed, and the closed flag is still set.
C5_ClosedIsTerminal ==
    /\ \A j \in 1..Len(received) : \A k \in 1..(j - 1) :
          received[k].kind = "Closed" => received[j].kind = "Closed"
    /\ (\E k \in 1..Len(received) : received[k].kind = "Closed") => closed

\* C5, its case: two recvs in a row returned Closed while a value sent
\* after the last read sits unread in the slot.
C5_ClosedTwice ==
    /\ Len(received) >= 2
    /\ received[Len(received) - 1].kind = "Closed"
    /\ received[Len(received)].kind = "Closed"
    /\ changed
    /\ vseq > ackedSeq

\* C6: on an open channel whose current value was already received, a recv
\* during which nothing is sent fails with Timeout carrying the configured
\* timeout, after waiting that long and no longer; it never returns the
\* value already received again, and it returns a value only if one was
\* sent since it started.
C6_RecvTimeout ==
    /\ \A k \in 1..Len(received) :
          received[k].kind = "Timeout" =>
              /\ received[k].t = timeout_ms
              /\ received[k].elapsed = timeout_ms
    /\ rElapsed <= timeout_ms
    /\ \A j \in 1..Len(received) : \A k \in 1..(j - 1) :
          (ValueAt(j) /\ ValueAt(k)) => received[k].seq < received[j].seq
    /\ (rpc = "ack" /\ response.kind = "Value" /\ ~rStart.changed) =>
          Len(sent) > rStart.sends
    /\ (rpc = "ack" /\ response.kind = "Closed") => closed

\* C6, its case: a recv returned the current value, nothing was sent, and
\* the next recv on the open channel timed out after the default timeout.
C6_TimeoutAfterValue ==
    \E k \in 2..Len(received) :
        /\ received[k].kind = "Timeout"
        /\ received[k].t = DEFAULT_TIMEOUT_MS
        /\ ValueAt(k - 1)
        /\ received[k - 1].seq = Len(sent)
        /\ ~closed

\* A close has just returned Timeout.
CloseTimedOut ==
    /\ Len(closes') = Len(closes) + 1
    /\ closes'[Len(closes')].kind = "Timeout"

\* C7: a close whose wait for an acknowledgment times out fails with
\* Timeout carrying the configured timeout and changes nothing: closed stays
\* false, the acknowledgment is not cleared, the stored value is untouched.
C7_CloseTimeoutKeepsState ==
    [][CloseTimedOut =>
          /\ closes'[Len(closes')].t = timeout_ms
          /\ closes'[Len(closes')].elapsed = timeout_ms
          /\ cElapsed <= timeout_ms
          /\ ~closed'
          /\ closed' = closed
          /\ ack' = ack
          /\ ackChanged' = ackChanged
          /\ value' = value
          /\ vseq' = vseq
          /\ changed' = changed
          /\ sent' = sent]_vars

\* C7, its case: a close timed out and the retried close succeeded.
C7_RetriedCloseSucceeds ==
    /\ Len(closes) = 2
    /\ closes[1].kind = "Timeout"
    /\ closes[2].kind = "Ok"
    /\ closed

\* C8: try_new(period) followed by start(duration) succeeds for every
\* period of 1..3,600,000 ms and duration with period <= duration <=
\* 86,400,000 ms.
C8_ValidPairsStart ==
    (/\ startResult.kind # "None"
     /\ args.period >= 1
     /\ args.period <= 3600000
     /\ args.duration >= args.period
     /\ args.duration <= 86400000) =>
        (tryNewResult.kind = "Ok" /\ startResult.kind = "Ok")

\* ceil(d / p) in exact arithmetic.
CeilDiv(d, p) == (d + p - 1) \div p

\* The countdown loop is over, by its end or by a panic.
LoopEnded == task \in {"close", "closing", "done", "panicked"}

\* C9: a started countdown sends ceil(duration / period) + 1 values through
\* its loop, strictly decreasing and ending at 0.
C9_SendsCeilPlusOne ==
    LoopEnded =>
        /\ Len(sent) - 1 = CeilDiv(duration, interval) + 1
        /\ \A k \in 2..(Len(sent) - 1) : U64Less(sent[k + 1], sent[k])
        /\ sent[Len(sent)] = 0

\* C10: try_new fails with ZeroInterval when the period is 0, with
\* IntervalGreaterThanOneHour carrying the period when it is above
\* 3,600,000 ms, and succeeds with that period otherwise.
C10_PeriodValidation ==
    tryNewResult.kind # "None" =>
        /\ (tryNewResult.kind = "ZeroInterval") <=> (args.period = 0)
        /\ (tryNewResult.kind = "IntervalGreaterThanOneHour") <=> (args.period > 3600000)
        /\ (tryNewResult.kind = "IntervalGreaterThanOneHour") =>
              tryNewResult.period = args.period
        /\ (tryNewResult.kind = "Ok") <=> (args.period >= 1 /\ args.period <= 3600000)
        /\ (tryNewResult.kind = "Ok") => interval = args.period

\* C10, its case: the period one above the limit was rejected (the limit
\* itself is among the periods tried and must be accepted).
C10_PeriodAboveLimitRejected ==
    /\ tryNewResult.kind = "IntervalGreaterThanOneHour"
    /\ args.period = 3600001
    /\ 3600000 \in Periods

\* C11: start(duration) fails with ZeroDuration when the duration is 0,
\* with DurationGreaterThanOneDay(duration) when it exceeds 86,400,000 ms,
\* and with DurationSmallerThanPeriod{duration, period} when 0 < duration <
\* period; the errors carry the duration and the period unchanged.
C11_DurationValidation ==
    startResult.kind # "None" =>
        /\ (args.duration = 0) => startResult.kind = "ZeroDuration"
        /\ (args.duration > 86400000) =>
              /\ startResult.kind = "DurationGreaterThanOneDay"
              /\ startResult.duration = args.duration
        /\ (args.duration > 0 /\ args.duration < args.period) =>
              /\ startResult.kind = "DurationSmallerThanPeriod"
              /\ startResult.duration = args.duration
              /\ startResult.period = args.period

\* start has returned a validation error.
StartFailed == startResult.kind \notin {"None", "Ok"}

\* C12: when start returns a validation error, no channel is created and no
\* task is spawned: the scheduler keeps the period try_new gave it, and
\* nothing is ever sent, closed or received for that call.
C12_FailedStartDoesNothing ==
    StartFailed =>
        /\ ChannelIs(NoChannel)
        /\ task = "none"
        /\ interval = args.period
        /\ sent = <<>>
        /\ closes = <<>>
        /\ received = <<>>
        /\ vseq = 0
        /\ ppc = "idle"
        /\ rpc = "idle"
        /\ duration = 0
        /\ intervals = 0
        /\ i = 0

\* C12, its case: start(50) on a period above 50 ms was rejected.
C12_StartRejected ==
    /\ startResult.kind = "DurationSmallerThanPeriod"
    /\ args.duration = 50
    /\ tryNewResult.kind = "Ok"

\* The free producer is between two calls and has sends left.
ProducerReady == task = "free" /\ ppc = "idle" /\ Len(sent) <= MaxSends

\* A send has just completed.
SendCompleted == Len(sent') = Len(sent) + 1

C14_SendWaitsForAck ==
    \A k \in 2..Len(sent) : k \notin lost

\* The consumer has called recv once per tick period so far: its k-th recv
\* polled the slot when the loop had sent k values (the slot's k + 1-th
\* write, after the seed), and none of its recvs timed out.
OncePerTick ==
    \A k \in 1..Len(received) :
        /\ received[k].kind # "Timeout"
        /\ ValueAt(k) => received[k].latest = k + 1

\* C15: for a duration that is a multiple of the period, a consumer that
\* calls recv once per tick period receives duration, duration - period,
\* ..., period, 0, each once and in that order, and Closed after them.
C15_CountdownSequence ==
    (Started /\ duration % interval = 0 /\ OncePerTick) =>
        \A k \in 1..Len(received) :
            IF k <= duration \div interval + 1
              THEN ValueAt(k) /\ received[k].val = duration - (k - 1) * interval
              ELSE received[k].kind = "Closed"

\* C16: after the consumer has received the terminal Value(0) of a run, its
\* next recv returns Closed: not another value and not Timeout, whatever
\* the timing of the task's close against that recv.
C16_ClosedFollowsZero ==
    \A k \in 1..(Len(received) - 1) :
        (ValueAt(k) /\ received[k].val = 0) => received[k + 1].kind = "Closed"

\* C17: a new channel holds its initial value marked changed: the first recv
\* on it returns a value at its first poll, and when nothing was sent before
\* that poll the value is the initial one, which for a countdown run is the
\* duration given to start.
C17_InitialValueReceived ==
    /\ (vseq = 1 /\ ackedSeq = 0 /\ rpc \in {"idle", "poll"}) => changed
    /\ Len(received) >= 1 =>
          /\ ValueAt(1)
          /\ received[1].latest = 1 =>
                /\ received[1].seq = 1
                /\ received[1].val = sent[1]
                /\ Started => received[1].val = args.duration

\* C17, its case: the consumer of a countdown called recv before the
\* task's first send and received the duration.
C17_DurationReceivedFirst ==
    /\ Started
    /\ Len(received) >= 1
    /\ ValueAt(1)
    /\ received[1].latest = 1
    /\ received[1].val = args.duration
    /\ Len(sent) >= 2

\* C18: in every reachable state, if the acknowledgment is set then the
\* value stored in the channel has been returned by a recv: every send puts
\* the channel back in the unacknowledged state.
C18_AckMeansCurrentValueReceived ==
    ack => ackedSeq = vseq

\* C19: each operation updates value, changed, ack and closed as one atomic
\* step.  Between recv's read of the value and its setting of ack no send
\* or close has taken effect: the value read is still the one stored, still
\* unchanged, on a channel still open.  Between close's clearing of ack and
\* its setting of closed no recv has taken effect: ack is still clear.
C19_OperationsAtomic ==
    /\ (rpc = "ack" /\ response.kind = "Value") =>
          /\ response.seq = vseq
          /\ ~changed
          /\ ~closed
    /\ ppc = "set_closed" => ~ack

\* The positions in `sent` (the initial value, then the values sent) of the
\* values received so far, in the order they were received.
ReceivedSeqs ==
    LET vals == SelectSeq(received, LAMBDA r : r.kind = "Value")
    IN  [k \in 1..Len(vals) |-> vals[k].seq]

\* C20: order is preserved: the values the recvs return are a subsequence,
\* in the same order, of the initial value followed by the values sent;
\* values may be skipped, but none sent earlier is returned after one sent
\* later.
C20_OrderPreserved ==
    LET vals == SelectSeq(received, LAMBDA r : r.kind = "Value")
    IN  /\ \A k \in 1..Len(vals) :
              /\ ReceivedSeqs[k] \in 1..Len(sent)
              /\ vals[k].val = sent[ReceivedSeqs[k]]
        /\ \A k \in 1..(Len(vals) - 1) : ReceivedSeqs[k] < ReceivedSeqs[k + 1]

\* C20, its case: the consumer received the initial value and, after two
\* sends of different values, the second one: the first was skipped.
C20_SkippedInOrder ==
    /\ Len(ReceivedSeqs) = 2
    /\ ReceivedSeqs[1] = 1
    /\ ReceivedSeqs[2] = 3
    /\ sent[2] # sent[3]
    /\ sent[1] # sent[3]

\* The positions of the received results that are values.
ValueResults == {k \in 1..Len(received) : ValueAt(k)}

\* C21: at most one delivery per write: a recv returns a value only if the
\* channel was created or a send occurred since the previous recv that
\* returned one, so no write is returned twice and the values received are
\* at most 1 + the number of sends.
C21_AtMostOncePerWrite ==
    /\ Cardinality(ValueResults) <= Len(sent)
    /\ \A j, k \in ValueResults : j # k => received[j].seq # received[k].seq
    /\ (rpc = "ack" /\ response.kind = "Value") =>
          \A k \in ValueResults : received[k].seq < response.seq

\* C21, its case: the initial value and the one value sent were each
\* received once, and the recv after them got no third value: it timed out.
C21_NothingLeftToDeliver ==
    /\ Len(sent) = 2
    /\ Len(received) = 3
    /\ ValueResults = {1, 2}
    /\ received[3].kind = "Timeout"

\* The countdown task is over: it returned, or it panicked.
TaskEnded == task \in {"done", "panicked"}

\* C22: the background loop of a run ends after ceil(duration / period) + 1
\* ticks and exactly one close attempt, whether that attempt succeeds or
\* times out: it never retries close and sends nothing after it.
C22_OneCloseAttemptThenEnd ==
    /\ Len(closes) <= 1
    /\ TaskEnded =>
          /\ Len(closes) = 1
          /\ Len(sent) - 1 = CeilDiv(duration, interval) + 1
          /\ closes[1].sends = Len(sent)

\* C23: a consumer that keeps calling recv eventually receives Closed, also
\* when it made no recv before the task's close attempt and that attempt
\* timed out.  Only the task can close the channel, so once the task is
\* over the channel must be closed; taken for the runs whose duration is a
\* multiple of the period and whose loop makes duration / period + 1 sends.
C23_EndedTaskHasClosed ==
    (TaskEnded /\ duration % interval = 0 /\ intervals = duration \div interval) => closed

\* The steps of a consumer that is inside recv, and those of a producer
\* that is inside close: the runtime keeps polling a task whose timer has
\* expired or whose lock is free.
ConsumerInRecv == ReadPoll \/ ReadSleep \/ ReadTimeout \/ Ack
ProducerInClose == AckPoll \/ AckSleep \/ CloseTimeout \/ AckClear \/ SetClosed

\* C24: every call to recv and every call to close returns, whatever the
\* other side does and wherever it stops: a recv returns as long as the
\* consumer's own task is scheduled, a close as long as the producer's is,
\* and neither wait goes past the timeout.
C24_CallsReturn ==
    /\ [](rElapsed <= timeout_ms /\ cElapsed <= timeout_ms)
    /\ WF_vars(ConsumerInRecv) => (rpc # "idle" ~> rpc = "idle")
    /\ WF_vars(ProducerInClose) => (ppc # "idle" ~> ppc = "idle")

\* C24, its case: a recv and a close have both timed out, each with the
\* other side giving it nothing.
C24_BothTimedOut ==
    /\ \E k \in 1..Len(received) : received[k].kind = "Timeout"
    /\ \E k \in 1..Len(closes) : closes[k].kind = "Timeout"
    /\ rpc = "idle"
    /\ ppc = "idle"

\* C25: for every (period, duration) that validation accepts, each value
\* duration - period * i the loop computes is a u64 between 0 and duration:
\* the subtraction never underflows, so the task neither panics in the loop
\* nor sends a wrapped value.
C25_NoUnderflow ==
    /\ \A k \in 2..Len(sent) : sent[k] >= 0 /\ sent[k] <= duration
    /\ task = "panicked" => closes # <<>>

\* C26: calc_intervals(duration, period) is the exact integer ceiling of
\* duration / period for every valid pair of millisecond values, and so
\* duration / period when the duration is a multiple of the period.
C26_CalcIntervalsIsCeiling ==
    (Started /\ task \notin {"none", "spawned"}) =>
        intervals = CeilDiv(duration, interval)

\* C27: when start is called twice on one AsyncCountdown the two runs keep
\* their own ticks: the ticks a run gets are consecutive ticks of the
\* Interval, one period apart, and a run that reached the end of its loop
\* sent its whole sequence.
C27_OneTickPerPeriod ==
    \A r \in Runs :
        /\ \A k \in 1..(Len(runs[r].got) - 1) : runs[r].got[k + 1] = runs[r].got[k] + 1
        /\ runs[r].task \in {"close", "done"} =>
              runs[r].sentVals =
                 [k \in 1..(CeilDiv(runs[r].duration, interval) + 1) |->
                     runs[r].duration - interval * (k - 1)]

\* The step on which a recv returns a result of the given kind.
RecvReturns(kind) ==
    /\ rpc # "idle"
    /\ rpc' = "idle"
    /\ Len(received') = Len(received) + 1
    /\ received'[Len(received')].kind = kind

\* C28: recv acknowledges only on success.  The step on which a recv
\* returns Value sets ack; the step on which a recv returns Timeout, and
\* every earlier step of a recv that has found no value, leaves the channel
\* as it is (value, ack, closed) and the number of acknowledgments issued,
\* so it does not move a close that is waiting for the acknowledgment.
C28_AckOnlyOnSuccess ==
    [][/\ RecvReturns("Value") => (ack' /\ ackChanged' /\ acks' = acks + 1)
       /\ RecvReturns("Timeout") =>
             (UNCHANGED <<chanVars, acks, ackedSeq, ppc, closes>>)
       /\ (rpc \in {"poll", "sleep"} /\ rpc' \in {"poll", "sleep"} /\ rpc' # rpc) =>
             (UNCHANGED <<chanVars, acks, ackedSeq, ppc, closes>>)]_vars

\* A recv has timed out while the first close is still waiting in wait_ack.
C28_TimeoutDuringPendingClose ==
    /\ received # <<>>
    /\ received[Len(received)].kind = "Timeout"
    /\ rpc = "idle"
    /\ ppc = "ack_sleep"
    /\ closes = <<>>
    /\ ~closed

\* C29: closed is true only after an acknowledgment.  While no recv has
\* returned and acknowledged since the channel was created, closed is false
\* and no close has returned Ok; once closed is true at least one
\* acknowledgment has been issued.
C29_ClosedNeedsAnAck ==
    /\ closed => acks >= 1
    /\ acks = 0 => \A k \in 1..Len(closes) : closes[k].kind = "Timeout"
    /\ ppc \in {"ack_clear", "set_closed"} => acks >= 1

\* close was called on a channel whose consumer never completed a recv:
\* it timed out and the channel is still open.
C29_CloseWithoutRecvTimedOut ==
    /\ closes # <<>>
    /\ closes[1].kind = "Timeout"
    /\ received = <<>>
    /\ acks = 0
    /\ ~closed

\* C30: ChannelWatcher::next returns None when the value it read after the
\* change is zero and Some(value) when it is not: a result None was read
\* from a zero, a result Some carries the non-zero value that was read, a
\* value that some send published, and Some(0) is never returned.
C30_ZeroIsNone ==
    \A k \in 1..Len(nexts) :
        /\ nexts[k].kind = "None" <=> (nexts[k].kind # "Timeout" /\ nexts[k].read = 0)
        /\ nexts[k].kind = "Some" =>
              /\ nexts[k].val # 0
              /\ nexts[k].val = nexts[k].read
              /\ nexts[k].sends >= 1
              /\ \E j \in 1..nexts[k].sends : watch.sent[j] = nexts[k].val

\* As in the tests: after send(0) on a channel holding 42 next returned
\* None, and after send(42) it returned Some(42).
C30_NoneThenSome ==
    /\ Len(nexts) >= 2
    /\ watch.sent = <<0, 42>>
    /\ nexts[1].kind = "None"
    /\ nexts[2].kind = "Some"
    /\ nexts[2].val = 42

\* The last n ticks all failed to send.
LastFailed(n) == \A j \in (Len(emitted) - n + 1)..Len(emitted) : ~emitted[j].ok

\* How many ticks in a row have failed to send, up to the latest.
FailedInARow ==
    CHOOSE n \in 0..Len(emitted) :
        /\ LastFailed(n)
        /\ n < Len(emitted) => emitted[Len(emitted) - n].ok

\* C31: start of countdown.rs tolerates send_retry_limit failed sends in a
\* row.  While it runs, and when it returns Ok, no more than the limit have
\* failed in a row and retries_left is the limit less that number, the full
\* limit after a send that succeeded; it returns Err(CountdownError) on the
\* failure after those, and the error carries the value of that tick: 500
\* for 1000/100 with limit 5 and no subscriber.
C31_RetryLimit ==
    (newResult.kind = "Ok" /\ ~countdown.unwrap) =>
        /\ bpc \in {"tick", "send", "done"} =>
              /\ FailedInARow <= countdown.send_retry_limit
              /\ loop.retries_left = countdown.send_retry_limit - FailedInARow
              /\ startErr.kind = "None"
        /\ bpc = "failed" =>
              /\ FailedInARow = countdown.send_retry_limit + 1
              /\ startErr = CountdownError(emitted[Len(emitted)].val)
              /\ (countdown.duration = 1000 /\ countdown.send_retry_limit = 5
                    /\ LastFailed(Len(emitted))) => startErr.val = 500

\* As in the test: 1000/100 with limit 5 and no subscriber, start has
\* returned the error with 500 on its sixth tick.
C31_FailsAtFiveHundred ==
    /\ countdown = [duration |-> 1000, interval |-> 100, send_retry_limit |-> 5,
                    unwrap |-> FALSE]
    /\ bpc = "failed"
    /\ Len(emitted) = 6
    /\ startErr = CountdownError(500)

\* The values the consumer's recv calls returned, in order.
BValues == SelectSeq(brecv, LAMBDA r : r.kind = "Value")

C33_FromDurationDownToZero ==
    /\ emitted # <<>> => emitted[1].val = countdown.duration
    /\ \A k \in 1..Len(emitted) : emitted[k].val <= countdown.duration
    /\ \A k \in 1..(Len(emitted) - 1) :
          emitted[k + 1].val = emitted[k].val - countdown.interval
    /\ bpc = "done" => emitted[Len(emitted)].val = 0

\* C34: == on Error tells validation failures apart: it holds for two
\* InvalidCountdown errors only when they are the same variant with the
\* same payload.
C34_EqualityTellsVariantsApart ==
    \A k \in 1..Len(eqs) :
        eqs[k].eq <=> eqs[k].actual = eqs[k].expected

====
